---------------------------- MODULE Spec2Model ----------------------------
(***************************************************************************)
(* Octane ORBX Export Helper (src/Octane_Export_Helper_V2.py): the chunk   *)
(* planner, the batch file names, the manual per-chunk driver and the      *)
(* auto-batch sequencer (timer callback), as a state machine.              *)
(*                                                                         *)
(* Strings are sequences of one-character strings, so that formatting,     *)
(* splitting and the regular expression act on characters.  Frame numbers  *)
(* and sizes are integers.  Delays are in tenths of a second.             *)
(***************************************************************************)
EXTENDS Integers, Sequences, FiniteSets, TLC

VARIABLES
    scene,          \* bpy.context.scene: frame_start, frame_end, frame_current
    settings,       \* scene.orbx_export_settings (OrbxExportSettings)
    has_settings,   \* hasattr(scene, "orbx_export_settings")
    auto_state,     \* the module global _auto_state
    timers,         \* registrations of orbx_auto_batch_timer in bpy.app.timers
    fs_script,      \* how the exporter's output file behaves (the environment)
    watch,          \* history of the polls of the current chunk
    manual_exports, \* history: export invocations of the manual driver since the last plan
    auto_exports,   \* history: export invocations of the current sequencer session
    last,           \* history: the latest operation, what it reported and returned
    planner         \* 'Prepare Batch Chunks' at work: its loop variable f, passes made

vars == <<scene, settings, has_settings, auto_state, timers, fs_script,
          watch, manual_exports, auto_exports, last, planner>>

---------------------------------------------------------------------------
\* Bounds of the model.

MaxFrame == 4
MaxStep == 3
MaxOverlap == 2
MaxSize == 1
MaxAbsent == 3
MaxTimers == 2

\* Program constants.

StableNeeded == 3
MaxChecks == 600
MinInterval == 5

---------------------------------------------------------------------------
\* Strings.

Max(a, b) == IF a >= b THEN a ELSE b
Min(a, b) == IF a <= b THEN a ELSE b

Digits == <<"0", "1", "2", "3", "4", "5", "6", "7", "8", "9">>
IsDigit(c) == \E i \in 1..10 : Digits[i] = c

\* f"{n}" for a non-negative integer: its decimal digits.
RECURSIVE NatToStr(_)
NatToStr(n) == IF n < 10 THEN <<Digits[n + 1]>>
               ELSE NatToStr(n \div 10) \o <<Digits[(n % 10) + 1]>>

\* f"{n}" for an integer.
IntToStr(n) == IF n < 0 THEN <<"-">> \o NatToStr(-n) ELSE NatToStr(n)

\* str.rfind(c) + 1: the last index of c in s, 0 when there is none.
LastIndexOf(s, c) ==
    LET hits == {i \in 1..Len(s) : s[i] = c}
    IN IF hits = {} THEN 0 ELSE CHOOSE i \in hits : \A j \in hits : j <= i

\* os.path.split(p): <<head, tail>>, tail being what follows the last "/".
PathSplit(p) ==
    LET i == LastIndexOf(p, "/")
    IN <<SubSeq(p, 1, i), SubSeq(p, i + 1, Len(p))>>

\* os.path.splitext(p): <<root, ext>>; the extension starts at the last dot of
\* the last path component, unless only dots precede it in that component.
splitext(p) ==
    LET sep == LastIndexOf(p, "/")
        dot == LastIndexOf(p, ".")
    IN IF dot > sep /\ \E k \in (sep + 1)..(dot - 1) : p[k] # "."
       THEN <<SubSeq(p, 1, dot - 1), SubSeq(p, dot, Len(p))>>
       ELSE <<p, <<>>>>

\* The length of the run of digits that ends s[1..n].
DigitRun(s, n) ==
    LET stops == {i \in 1..n : ~IsDigit(s[i])}
    IN IF stops = {} THEN n
       ELSE n - (CHOOSE i \in stops : \A j \in stops : j <= i)

FrameTag == <<"_", "f", "r", "a", "m", "e", "_">>
StepTag == <<"_", "F", "_">>
OrbxExt == <<".", "o", "r", "b", "x">>

\* A resolution that strips nothing.
StripNothing(s) == s

\* re.sub(r"_frame_\d+_\d+$", "", s): s without a final _frame_<digits>_<digits>.
StripRange(s) ==
    LET n  == Len(s)
        d2 == DigitRun(s, n)
        m  == n - d2 - 1
        d1 == IF m >= 1 THEN DigitRun(s, m) ELSE 0
        k  == m - d1
    IN IF /\ d2 >= 1
          /\ m >= 1
          /\ s[m + 1] = "_"
          /\ d1 >= 1
          /\ k >= 7
          /\ SubSeq(s, k - 6, k) = FrameTag
       THEN SubSeq(s, 1, k - 7)
       ELSE s


---------------------------------------------------------------------------
\* File names and paths.

ExportDefault == <<"e", "x", "p", "o", "r", "t">> \o OrbxExt
BlendDir == <<"/">>

\* settings.filename, else the last component of settings.filepath, else
\* "export.orbx" (the first lines of the three build_*/sync functions).
base_filename(st) ==
    IF st.filename # <<>> THEN st.filename
    ELSE LET base_name == PathSplit(st.filepath)[2]
         IN IF base_name # <<>> THEN base_name ELSE ExportDefault

ext_or_default(ext) == IF ext = <<>> THEN OrbxExt ELSE ext

\* name_root = f"{name_root}_F_{fs}"
step_tagged(name_root, fs) == name_root \o StepTag \o IntToStr(fs)

\* name_root = f"{name_root}_frame_{fs}_{fe}"
range_tagged(name_root, fs, fe) ==
    name_root \o FrameTag \o IntToStr(fs) \o <<"_">> \o IntToStr(fe)

build_batch_filename_step(st, fs, fe) ==
    LET parts     == splitext(base_filename(st))
        ext       == ext_or_default(parts[2])
        stripped  == StripRange(parts[1])
        tagged    == step_tagged(stripped, fs)
        name_root == IF st.append_frame_range
                     THEN range_tagged(tagged, fs, fe) ELSE tagged
    IN name_root \o ext

\* The directory of settings.filepath (with its final "/"), else the
\* directory of the .blend file.
get_base_dir(st) ==
    LET base_dir == PathSplit(st.filepath)[1]
    IN IF base_dir = <<>> THEN BlendDir ELSE base_dir

\* os.path.join(base_dir, filename), base_dir ending in "/".
path_join(base_dir, filename) == base_dir \o filename

\* cleanup_previous_export(full_path): the two places it removes.
assets_dir(full_path) ==
    splitext(full_path)[1] \o <<" ", "a", "s", "s", "e", "t", "s">>

---------------------------------------------------------------------------
\* The chunk planner: the loop of EXPORT_OT_orbx_prepare_batch.execute.

\* A planner whose smallest step is 2.
effective_step_from_two(st) == Max(2, st.batch_step)

effective_step(st) == Max(1, st.batch_step)
effective_overlap(st) ==
    IF st.batch_use_overlap THEN st.batch_overlap_frames ELSE 0

\* A window that runs one frame into the next one.
window_end_inclusive_step(f, step) == f + step

window_end(f, step) == f + step - 1
\* A loop that leaves a frame out between two windows.
next_window_past_step(f, step) == f + step + 1

next_window(f, step) == f + step

\* A window widened at its end only.
chunk_window_end_only(f, step, overlap, scene_start, scene_end) ==
    [start |-> Max(f, scene_start),
     end   |-> Min(f + step - 1 + overlap, scene_end)]

\* One pass of the loop body: the window of f, widened and clamped.
chunk_window(f, step, overlap, scene_start, scene_end) ==
    LET start0 == f
        end0   == window_end(f, step)
        start1 == IF overlap > 0 THEN start0 - overlap ELSE start0
        end1   == IF overlap > 0 THEN end0 + overlap ELSE end0
    IN [start |-> Max(start1, scene_start), end |-> Min(end1, scene_end)]

RECURSIVE plan_loop(_, _, _, _, _, _)
plan_loop(f, step, overlap, scene_start, scene_end, chunks) ==
    IF f <= scene_end
    THEN LET w == chunk_window(f, step, overlap, scene_start, scene_end)
         IN plan_loop(next_window(f, step), step, overlap, scene_start, scene_end,
                      IF w.start <= w.end THEN Append(chunks, w) ELSE chunks)
    ELSE chunks

plan_chunks(scene_start, scene_end, step, overlap) ==
    plan_loop(scene_start, step, overlap, scene_start, scene_end, <<>>)

---------------------------------------------------------------------------
\* Values of the state.

\* What one poll of the output path finds: os.path.exists and os.path.getsize.
Missing == [exists |-> FALSE, size |-> 0]
Found(n) == [exists |-> TRUE, size |-> n]
Observations == {Missing} \cup {Found(n) : n \in 0..MaxSize}

\* The file the exporter writes: anything at every poll, never there, or
\* absent for the first polls of a chunk and then there with one size.
AnyFile == [kind |-> "any", absent |-> 0, size |-> 0]
NeverFile == [kind |-> "never", absent |-> 0, size |-> 0]
AppearFile(k, n) == [kind |-> "appear", absent |-> k, size |-> n]
AbsentPolls == (0..MaxAbsent) \cup {MaxChecks - 3, MaxChecks - 2}
AppearFiles == {AppearFile(k, n) : k \in AbsentPolls, n \in 0..MaxSize}

\* What poll number n of a chunk may find.
observable(script, n) ==
    IF script.kind = "any" THEN Observations
    ELSE IF script.kind = "never" THEN {Missing}
    ELSE IF n <= script.absent THEN {Missing}
    ELSE {Found(script.size)}

\* A timer callback's result: None, or the seconds (in tenths) to the next call.
ReturnNone == [stop |-> TRUE, delay |-> 0]
ReturnDelay(d) == [stop |-> FALSE, delay |-> d]

\* bpy.ops.export.orbx(filepath=..., frame_start=..., frame_end=...)
export_call(path, fs, fe) ==
    [filepath |-> path, frame_start |-> fs, frame_end |-> fe]

io_call(name, path) == [call |-> name, path |-> path]

\* The plan and the manual cursor a planning call found, when it replaced them.
NothingReplaced == [chunks |-> <<>>, index |-> 0]

\* The record of an operator: what it reported and its result.
operator_result(name, message, finished) ==
    [op |-> name, msg |-> message, io |-> <<>>,
     ret |-> [stop |-> ~finished, delay |-> 0], replaced |-> NothingReplaced]

timer_result(message, io, ret) ==
    [op |-> "timer", msg |-> message, io |-> io, ret |-> ret,
     replaced |-> NothingReplaced]

\* The polls of the current chunk so far: the latest observation; how many
\* of the latest polls in a row found the file with the size the poll before
\* found; whether a poll found the file; the size the latest poll that found
\* the file found (0 before any), and how many of these in a row found the
\* size the one before found.
NoPolls ==
    [polled |-> FALSE, obs |-> Missing, unchanged |-> 0, existed |-> FALSE,
     seen_size |-> 0, same_seen |-> 0]

\* The poll history after a poll that found o.
polled_once(w, o) ==
    [polled    |-> TRUE,
     obs       |-> o,
     unchanged |-> IF w.polled /\ o.exists /\ w.obs = o
                   THEN Min(w.unchanged + 1, StableNeeded) ELSE 0,
     existed   |-> w.existed \/ o.exists,
     seen_size |-> IF o.exists THEN o.size ELSE w.seen_size,
     same_seen |-> IF ~o.exists THEN w.same_seen
                   ELSE IF o.size = w.seen_size
                   THEN Min(w.same_seen + 1, StableNeeded) ELSE 0]

\* _auto_state as the module defines it.
auto_state_initial ==
    [running      |-> FALSE,
     index        |-> 0,
     chunks       |-> <<>>,
     base_dir     |-> <<>>,
     orig_current |-> [set |-> FALSE, frame |-> 0],
     current_path |-> <<>>,
     last_size    |-> 0,
     stable       |-> 0,
     checks       |-> 0,
     status       |-> "idle"]

\* File names and paths a user may have entered.
FileNames == {
    <<"s">> \o OrbxExt,
    <<"s">>,
    <<"s">> \o FrameTag \o <<"0", "_", "9">> \o OrbxExt,
    <<>> }
FilePaths == {
    <<"/", "d", "/", "p">> \o OrbxExt,
    <<"/", "d", "/">> }
Delays == {1, 10}
Cooldowns == {0, 5}

FrameRanges ==
    {r \in [frame_start : 0..MaxFrame, frame_end : 0..MaxFrame] :
        r.frame_start <= r.frame_end}

---------------------------------------------------------------------------
\* The state after register(), with the values a user has entered.

SettingsValues ==
    [filepath             : FilePaths,
     filename             : FileNames,
     append_frame_range   : BOOLEAN,
     batch_enable         : BOOLEAN,
     batch_step           : 1..MaxStep,
     batch_use_overlap    : BOOLEAN,
     batch_overlap_frames : 0..MaxOverlap,
     batch_chunks         : {<<>>},
     batch_chunk_index    : {0},
     batch_auto           : BOOLEAN,
     batch_delay          : Delays,
     batch_cooldown       : Cooldowns]

\* No execute of 'Prepare Batch Chunks' is in its loop.
not_planning == [pc |-> "idle", f |-> 0, passes |-> 0]

\* Everything but the scene, the settings and the file's behaviour.
InitRest ==
    /\ has_settings = TRUE
    /\ auto_state = auto_state_initial
    /\ timers = 0
    /\ watch = NoPolls
    /\ manual_exports = <<>>
    /\ auto_exports = <<>>
    /\ planner = not_planning

InitAll ==
    /\ \E r \in FrameRanges :
          scene = [frame_start |-> r.frame_start, frame_end |-> r.frame_end,
                   frame_current |-> r.frame_start]
    /\ settings \in SettingsValues
    /\ InitRest
    /\ last = operator_result("register", "", TRUE)

---------------------------------------------------------------------------
\* The user edits a property of the panel or of the timeline.

set_scene_range ==
    /\ has_settings
    /\ \E r \in FrameRanges :
          /\ r # [frame_start |-> scene.frame_start, frame_end |-> scene.frame_end]
          /\ scene' = [scene EXCEPT !.frame_start = r.frame_start,
                                    !.frame_end = r.frame_end]
    /\ last' = operator_result("set_scene_range", "", TRUE)
    /\ UNCHANGED <<settings, has_settings, auto_state, timers, fs_script,
                   watch, manual_exports, auto_exports>>
    /\ UNCHANGED planner

set_batch_enable ==
    /\ has_settings
    /\ settings' = [settings EXCEPT !.batch_enable = ~@]
    /\ last' = operator_result("set_batch_enable", "", TRUE)
    /\ UNCHANGED <<scene, has_settings, auto_state, timers, fs_script,
                   watch, manual_exports, auto_exports>>
    /\ UNCHANGED planner

set_batch_step ==
    /\ has_settings
    /\ \E k \in 1..MaxStep :
          /\ k # settings.batch_step
          /\ settings' = [settings EXCEPT !.batch_step = k]
    /\ last' = operator_result("set_batch_step", "", TRUE)
    /\ UNCHANGED <<scene, has_settings, auto_state, timers, fs_script,
                   watch, manual_exports, auto_exports>>
    /\ UNCHANGED planner

set_batch_auto ==
    /\ has_settings
    /\ settings' = [settings EXCEPT !.batch_auto = ~@]
    /\ last' = operator_result("set_batch_auto", "", TRUE)
    /\ UNCHANGED <<scene, has_settings, auto_state, timers, fs_script,
                   watch, manual_exports, auto_exports>>
    /\ UNCHANGED planner

---------------------------------------------------------------------------
\* sync_and_update_filename, the update callback of use_scene_range,
\* frame_start, frame_end, append_frame_range and update_frame_range.

\* scene.frame_start = a; scene.frame_end = b, as Blender stores them: a start
\* above the end lifts the end, an end below the start lowers the start.
scene_range_assigned(sc, a, b) ==
    [sc EXCEPT !.frame_start = IF a > b THEN b ELSE a, !.frame_end = b]

\* The scene after the first lines of the callback.
synced_scene(st, sc) ==
    IF ~st.use_scene_range /\ st.update_frame_range
    THEN scene_range_assigned(sc, st.frame_start, st.frame_end)
    ELSE sc

\* The frames the callback names the file by.
synced_frames(st, sc) ==
    IF st.use_scene_range
    THEN <<synced_scene(st, sc).frame_start, synced_scene(st, sc).frame_end>>
    ELSE <<st.frame_start, st.frame_end>>

\* The file name the callback stores.
synced_filename(st, sc) ==
    LET parts     == splitext(base_filename(st))
        ext       == ext_or_default(parts[2])
        stripped  == StripRange(parts[1])
        fr        == synced_frames(st, sc)
        name_root == IF st.append_frame_range
                     THEN range_tagged(stripped, fr[1], fr[2]) ELSE stripped
    IN name_root \o ext

\* The frames a user may enter in the panel.
PanelFrames == {0, 10}

\* The settings after the user changed one of the five properties.
EditedSettings(st) ==
    {[st EXCEPT !.use_scene_range = b] : b \in BOOLEAN}
      \cup {[st EXCEPT !.update_frame_range = b] : b \in BOOLEAN}
      \cup {[st EXCEPT !.append_frame_range = b] : b \in BOOLEAN}
      \cup {[st EXCEPT !.frame_start = f] : f \in PanelFrames}
      \cup {[st EXCEPT !.frame_end = f] : f \in PanelFrames}

sync_and_update_filename ==
    /\ has_settings
    /\ \E st \in EditedSettings(settings) :
          /\ scene' = synced_scene(st, scene)
          /\ settings' = [st EXCEPT !.filename = synced_filename(st, scene)]
    /\ last' = [operator_result("sync", "", TRUE)
                  EXCEPT !.io = <<io_call("resolve", base_filename(settings))>>]
    /\ UNCHANGED <<has_settings, auto_state, timers, fs_script, watch,
                   manual_exports, auto_exports>>
    /\ UNCHANGED planner

\* The names a user may type into the File Name field.
EnteredNames ==
    FileNames \cup
    { <<"s">> \o FrameTag \o <<"0", "_", "9">> \o FrameTag \o <<"1", "_", "2">>
        \o OrbxExt,
      <<"s">> \o FrameTag \o <<"1", "0", "_", "2">>,
      OrbxExt }

---------------------------------------------------------------------------
\* EXPORT_OT_orbx_prepare_batch.execute

\* The settings after a successful 'Prepare Batch Chunks': the new plan
\* replaces the chunks and the manual cursor is back at 0.
\* A planner that adds to the plan it finds.
batch_chunks_kept(chunks) == chunks

\* settings.batch_chunks.clear()
batch_chunks_clear(chunks) == <<>>

\* settings.batch_chunk_index = 0
cursor_reset(idx) == 0

prepared_settings(st, sc) ==
    [st EXCEPT
       !.batch_chunks = batch_chunks_clear(st.batch_chunks)
                           \o plan_chunks(sc.frame_start, sc.frame_end,
                                          effective_step(st), effective_overlap(st)),
       !.batch_chunk_index = cursor_reset(st.batch_chunk_index)]

\* A range check that lets a range of one frame through.
invalid_range_inverted_only(scene_start, scene_end) == scene_start > scene_end

\* if scene_start >= scene_end
invalid_range(scene_start, scene_end) == scene_start >= scene_end

orbx_prepare_batch ==
    /\ has_settings
    /\ IF ~settings.batch_enable
       THEN /\ last' = operator_result("prepare_batch", "enable_first", FALSE)
            /\ UNCHANGED <<settings, manual_exports>>
       ELSE IF invalid_range(scene.frame_start, scene.frame_end)
       THEN /\ last' = operator_result("prepare_batch", "invalid_range", FALSE)
            /\ UNCHANGED <<settings, manual_exports>>
       ELSE /\ settings' = prepared_settings(settings, scene)
            /\ manual_exports' = <<>>
            /\ last' = [operator_result("prepare_batch", "prepared", TRUE)
                          EXCEPT !.replaced =
                            [chunks |-> settings.batch_chunks,
                             index  |-> settings.batch_chunk_index]]
    /\ UNCHANGED <<scene, has_settings, auto_state, timers, fs_script,
                   watch, auto_exports>>
    /\ UNCHANGED planner

\* The same execute, one pass of its loop at a time: nothing else runs until
\* it returns.

\* The checks, settings.batch_chunks.clear() and f = scene_start.
prepare_batch_begin ==
    /\ has_settings
    /\ planner.pc # "loop"
    /\ settings.batch_enable
    /\ ~invalid_range(scene.frame_start, scene.frame_end)
    /\ settings' = [settings EXCEPT !.batch_chunks = batch_chunks_clear(@)]
    /\ manual_exports' = <<>>
    /\ planner' = [pc |-> "loop", f |-> scene.frame_start, passes |-> 0]
    /\ last' = [operator_result("prepare_batch", "planning", TRUE)
                  EXCEPT !.replaced =
                    [chunks |-> settings.batch_chunks,
                     index  |-> settings.batch_chunk_index]]
    /\ UNCHANGED <<scene, has_settings, auto_state, timers, fs_script,
                   watch, auto_exports>>

\* while f <= scene_end: one pass of the body.
prepare_batch_pass ==
    /\ planner.pc = "loop"
    /\ planner.f <= scene.frame_end
    /\ LET step == effective_step(settings)
           w    == chunk_window(planner.f, step, effective_overlap(settings),
                                scene.frame_start, scene.frame_end)
       IN /\ settings' = [settings EXCEPT !.batch_chunks =
                             IF w.start <= w.end THEN Append(@, w) ELSE @]
          /\ planner' = [planner EXCEPT !.f = next_window(@, step),
                                        !.passes = @ + 1]
    /\ UNCHANGED <<scene, has_settings, auto_state, timers, fs_script,
                   watch, manual_exports, auto_exports, last>>

\* The loop's test fails: the cursor is reset and the result reported.
prepare_batch_end ==
    /\ planner.pc = "loop"
    /\ planner.f > scene.frame_end
    /\ settings' = [settings EXCEPT
                      !.batch_chunk_index = cursor_reset(@)]
    /\ planner' = [planner EXCEPT !.pc = "done"]
    /\ last' = [last EXCEPT !.msg = "prepared"]
    /\ UNCHANGED <<scene, has_settings, auto_state, timers, fs_script,
                   watch, manual_exports, auto_exports>>

---------------------------------------------------------------------------
\* EXPORT_OT_orbx_export_next_chunk.execute

\* A driver that forgets to advance its cursor.
next_chunk_index_kept(idx) == idx

\* A driver that moves its cursor past the chunk after the exported one.
next_chunk_index_by_two(idx) == idx + 2

next_chunk_index(idx) == idx + 1

orbx_export_next_chunk ==
    /\ has_settings
    /\ LET chunks == settings.batch_chunks
           idx    == settings.batch_chunk_index
       IN IF ~settings.batch_enable \/ Len(chunks) = 0
          THEN /\ last' = operator_result("export_next_chunk", "no_chunks", FALSE)
               /\ UNCHANGED <<scene, settings, manual_exports>>
          ELSE IF idx >= Len(chunks)
          THEN /\ last' = operator_result("export_next_chunk", "all_exported", FALSE)
               /\ UNCHANGED <<scene, settings, manual_exports>>
          ELSE LET fs        == chunks[idx + 1].start
                   fe        == chunks[idx + 1].end
                   filename  == build_batch_filename_step(settings, fs, fe)
                   full_path == path_join(get_base_dir(settings), filename)
               IN /\ scene' = [scene EXCEPT !.frame_current = fs]
                  /\ manual_exports' =
                        Append(manual_exports, export_call(full_path, fs, fe))
                  /\ settings' = [settings EXCEPT
                        !.batch_chunk_index = next_chunk_index(idx)]
                  /\ last' = [operator_result("export_next_chunk", "exporting", TRUE)
                                EXCEPT !.io = <<io_call("export", full_path)>>]
    /\ UNCHANGED <<has_settings, auto_state, timers, fs_script, watch, auto_exports>>
    /\ UNCHANGED planner

---------------------------------------------------------------------------
\* EXPORT_OT_orbx_auto_batch.execute

\* The chunk list built for the timer: each chunk with its resolved path.
timer_chunks(st) ==
    [i \in 1..Len(st.batch_chunks) |->
        LET fs == st.batch_chunks[i].start
            fe == st.batch_chunks[i].end
        IN [start |-> fs, end |-> fe,
            path  |-> path_join(get_base_dir(st),
                                build_batch_filename_step(st, fs, fe))]]

\* The assignments to _auto_state of a start.
started_state(st, frame_current) ==
    [running      |-> TRUE,
     index        |-> 0,
     chunks       |-> timer_chunks(st),
     base_dir     |-> get_base_dir(st),
     orig_current |-> [set |-> TRUE, frame |-> frame_current],
     current_path |-> <<>>,
     last_size    |-> 0,
     stable       |-> 0,
     checks       |-> 0,
     status       |-> "idle"]

\* bpy.app.timers.register adds one registration, whatever is registered already.
timers_after_register(n) == n + 1

orbx_auto_batch ==
    /\ has_settings
    /\ timers < MaxTimers
    /\ IF ~settings.batch_enable
       THEN /\ last' = operator_result("auto_batch", "enable_first", FALSE)
            /\ UNCHANGED <<auto_state, timers, watch, auto_exports>>
       ELSE IF ~settings.batch_auto
       THEN /\ last' = operator_result("auto_batch", "enable_auto_first", FALSE)
            /\ UNCHANGED <<auto_state, timers, watch, auto_exports>>
       ELSE IF Len(settings.batch_chunks) = 0
       THEN /\ last' = operator_result("auto_batch", "no_chunks", FALSE)
            /\ UNCHANGED <<auto_state, timers, watch, auto_exports>>
       ELSE /\ auto_state' = started_state(settings, scene.frame_current)
            /\ timers' = timers_after_register(timers)
            /\ watch' = NoPolls
            /\ auto_exports' = <<>>
            /\ last' = operator_result("auto_batch", "started", TRUE)
    /\ UNCHANGED <<scene, settings, has_settings, fs_script, manual_exports>>
    /\ UNCHANGED planner

---------------------------------------------------------------------------
\* EXPORT_OT_orbx_auto_batch_stop.execute

orbx_auto_batch_stop ==
    /\ has_settings
    /\ IF auto_state.running
       THEN /\ auto_state' = [auto_state EXCEPT !.running = FALSE]
            /\ last' = operator_result("auto_batch_stop", "stopped", TRUE)
       ELSE /\ last' = operator_result("auto_batch_stop", "not_running", TRUE)
            /\ UNCHANGED auto_state
    /\ UNCHANGED <<scene, settings, has_settings, timers, fs_script, watch,
                   manual_exports, auto_exports>>
    /\ UNCHANGED planner

---------------------------------------------------------------------------
\* unregister(), and a scene without the settings (the file closes).

unregister ==
    /\ has_settings
    /\ auto_state' = [auto_state EXCEPT !.running = FALSE]
    /\ has_settings' = FALSE
    /\ last' = operator_result("unregister", "", TRUE)
    /\ UNCHANGED <<scene, settings, timers, fs_script, watch,
                   manual_exports, auto_exports>>
    /\ UNCHANGED planner

context_lost ==
    /\ has_settings
    /\ has_settings' = FALSE
    /\ last' = operator_result("context_lost", "", TRUE)
    /\ UNCHANGED <<scene, settings, auto_state, timers, fs_script, watch,
                   manual_exports, auto_exports>>
    /\ UNCHANGED planner

---------------------------------------------------------------------------
\* orbx_auto_batch_timer

\* Done after two stable checks.
is_stable_after_two(stable) == stable >= StableNeeded - 1

is_stable(stable) == stable >= StableNeeded

\* A timeout that fires one poll early.
timed_out_at_limit(checks) == checks >= MaxChecks

\* No safety timeout.
timed_out_never(checks) == FALSE

timed_out(checks) == checks > MaxChecks

\* A poll interval without the floor of half a second.
poll_delay_unfloored(st) == st.batch_delay

poll_delay(st) == Max(MinInterval, st.batch_delay)
advance_delay(st) == Max(MinInterval, st.batch_delay + st.batch_cooldown)

\* _auto_state["checks"] += 1, then the comparison of the size found.
\* A changed size counted as the first stable check.
size_compared_counting_change(a, o) ==
    IF o.size # a.last_size
    THEN [a EXCEPT !.last_size = o.size, !.stable = 1]
    ELSE [a EXCEPT !.stable = @ + 1]

size_compared(a, o) ==
    IF o.size # a.last_size
    THEN [a EXCEPT !.last_size = o.size, !.stable = 0]
    ELSE [a EXCEPT !.stable = @ + 1]

file_missing(a) == a

poll_update(a, o) ==
    LET counted == [a EXCEPT !.checks = @ + 1]
    IN IF o.exists THEN size_compared(counted, o) ELSE file_missing(counted)

\* An advance that skips a chunk.
advanced_by_two(a) == [a EXCEPT !.index = @ + 2, !.status = "idle"]

\* _auto_state["index"] += 1; _auto_state["status"] = "idle"
advanced(a) == [a EXCEPT !.index = @ + 1, !.status = "idle"]

\* An idle branch that forgets to enter the Waiting phase.
waiting_for_staying_idle(a, path) ==
    [a EXCEPT !.current_path = path, !.last_size = 0, !.stable = 0,
              !.checks = 0]

\* The assignments of the idle branch after the export is fired.
waiting_for(a, path) ==
    [a EXCEPT !.current_path = path, !.last_size = 0, !.stable = 0,
              !.checks = 0, !.status = "waiting"]

\* A tick that reads the plan stored in the settings.
session_chunks_live(a, st) == timer_chunks(st)

\* chunks = _auto_state["chunks"]: the list built at the start.
session_chunks(a, st) == a.chunks

\* A timer that does not look at batch_auto.
timer_ignores_batch_auto(a, present, st) == a.running /\ present

\* The first three returns: not running, no settings, batch_auto unticked.
timer_keeps_going(a, present, st) == a.running /\ present /\ st.batch_auto

orbx_auto_batch_timer ==
    /\ timers > 0
    /\ IF ~auto_state.running
       THEN /\ last' = timer_result("", <<>>, ReturnNone)
            /\ UNCHANGED <<scene, auto_state, watch, auto_exports>>
       ELSE IF ~timer_keeps_going(auto_state, has_settings, settings)
       THEN /\ auto_state' = [auto_state EXCEPT !.running = FALSE]
            /\ last' = timer_result(IF has_settings THEN "auto_disabled" ELSE "",
                                    <<>>, ReturnNone)
            /\ UNCHANGED <<scene, watch, auto_exports>>
       ELSE IF auto_state.index >= Len(session_chunks(auto_state, settings))
       THEN /\ scene' = IF auto_state.orig_current.set
                        THEN [scene EXCEPT
                                !.frame_current = auto_state.orig_current.frame]
                        ELSE scene
            /\ auto_state' = [auto_state EXCEPT !.running = FALSE]
            /\ last' = timer_result("complete", <<>>, ReturnNone)
            /\ UNCHANGED <<watch, auto_exports>>
       ELSE IF auto_state.status = "idle"
       THEN LET chunk == session_chunks(auto_state, settings)[auto_state.index + 1]
            IN /\ scene' = [scene EXCEPT !.frame_current = chunk.start]
               /\ auto_exports' =
                     Append(auto_exports,
                            export_call(chunk.path, chunk.start, chunk.end))
               /\ auto_state' = waiting_for(auto_state, chunk.path)
               /\ watch' = NoPolls
               /\ last' = timer_result("starting",
                             <<io_call("cleanup", chunk.path),
                               io_call("cleanup", assets_dir(chunk.path)),
                               io_call("export", chunk.path)>>,
                             ReturnDelay(poll_delay(settings)))
       ELSE IF auto_state.status = "waiting"
       THEN \E o \in observable(fs_script, auto_state.checks + 1) :
              LET a    == poll_update(auto_state, o)
                  stat == <<io_call("stat", auto_state.current_path)>>
              IN /\ auto_state.checks <= MaxChecks  \* no poll follows a timeout
                 /\ watch' = polled_once(watch, o)
                 /\ UNCHANGED <<scene, auto_exports>>
                 /\ IF o.exists /\ is_stable(a.stable)
                    THEN /\ auto_state' = advanced(a)
                         /\ last' = timer_result("chunk_complete", stat,
                                       ReturnDelay(advance_delay(settings)))
                    ELSE IF timed_out(a.checks)
                    THEN /\ auto_state' = advanced(a)
                         /\ last' = timer_result("timeout", stat,
                                       ReturnDelay(advance_delay(settings)))
                    ELSE /\ auto_state' = a
                         /\ last' = timer_result("", stat,
                                       ReturnDelay(poll_delay(settings)))
       ELSE /\ last' = timer_result("", <<>>, ReturnDelay(poll_delay(settings)))
            /\ UNCHANGED <<scene, auto_state, watch, auto_exports>>
    /\ timers' = IF last'.ret.stop THEN timers - 1 ELSE timers
    /\ UNCHANGED <<settings, has_settings, fs_script, manual_exports>>
    /\ UNCHANGED planner

---------------------------------------------------------------------------
\* Specifications.

\* The planner and the manual driver, for every setting of the panel.
InitPlan ==
    /\ InitAll
    /\ fs_script = AnyFile
    /\ ~settings.batch_auto
    /\ settings.batch_delay = 10
    /\ settings.batch_cooldown = 0
    /\ settings.batch_use_overlap \/ settings.batch_overlap_frames = 1

NextPlan ==
    \/ set_batch_enable
    \/ orbx_prepare_batch
    \/ orbx_export_next_chunk

SpecPlan == InitPlan /\ [][NextPlan]_vars

\* The same with the timeline edited between the operations, for one file name.
InitReplan ==
    /\ InitPlan
    /\ settings.filename = <<"s">> \o OrbxExt
    /\ settings.filepath = <<"/", "d", "/", "p">> \o OrbxExt
    /\ settings.batch_enable

NextReplan ==
    \/ set_scene_range
    \/ orbx_prepare_batch
    \/ orbx_export_next_chunk

SpecReplan == InitReplan /\ [][NextReplan]_vars

\* The file name under edits of the panel and of the timeline.
InitNames ==
    /\ \E r \in FrameRanges :
          /\ r.frame_start = 0
          /\ scene = [frame_start |-> r.frame_start, frame_end |-> r.frame_end,
                      frame_current |-> r.frame_start]
    /\ \E st \in SettingsValues, name \in EnteredNames, fr \in PanelFrames :
          /\ st.filename = <<>>
          /\ ~st.append_frame_range
          /\ ~st.batch_enable
          /\ st.batch_step = 1
          /\ ~st.batch_use_overlap
          /\ st.batch_overlap_frames = 0
          /\ ~st.batch_auto
          /\ st.batch_delay = 10
          /\ st.batch_cooldown = 0
          /\ settings = [filepath             |-> st.filepath,
                         filename             |-> name,
                         use_scene_range      |-> TRUE,
                         frame_start          |-> 0,
                         frame_end            |-> fr,
                         append_frame_range   |-> FALSE,
                         update_frame_range   |-> FALSE,
                         batch_enable         |-> FALSE,
                         batch_step           |-> 1,
                         batch_use_overlap    |-> FALSE,
                         batch_overlap_frames |-> 0,
                         batch_chunks         |-> <<>>,
                         batch_chunk_index    |-> 0,
                         batch_auto           |-> FALSE,
                         batch_delay          |-> 10,
                         batch_cooldown       |-> 0]
    /\ fs_script = AnyFile
    /\ InitRest
    /\ last = operator_result("register", "", TRUE)

NextNames ==
    \/ sync_and_update_filename
    \/ set_scene_range

SpecNames == InitNames /\ [][NextNames]_vars

\* The planner on any stored batch_step, also one below the property's
\* minimum (the planner reads it through max(1, ...)).
StepsRead == (-1)..MaxStep

InitStep ==
    /\ \E r \in FrameRanges :
          scene = [frame_start |-> r.frame_start, frame_end |-> r.frame_end,
                   frame_current |-> r.frame_start]
    /\ \E st \in SettingsValues, k \in StepsRead :
          /\ st.filename = <<"s">> \o OrbxExt
          /\ st.filepath = <<"/", "d", "/", "p">> \o OrbxExt
          /\ ~st.append_frame_range
          /\ ~st.batch_auto
          /\ st.batch_delay = 10
          /\ st.batch_cooldown = 0
          /\ st.batch_use_overlap \/ st.batch_overlap_frames = 1
          /\ settings = [st EXCEPT !.batch_step = k]
    /\ fs_script = AnyFile
    /\ InitRest
    /\ last = operator_result("register", "", TRUE)

SpecStep == InitStep /\ [][NextPlan]_vars

\* The sequencer runs on one file name and a timeline of three frames: plans
\* of two and three chunks, with and without overlap.
SequencerScene == [frame_start |-> 0, frame_end |-> 2, frame_current |-> 0]

SequencerSettings ==
    {st \in SettingsValues :
        /\ st.filename = <<"s">> \o OrbxExt
        /\ st.filepath = <<"/", "d", "/", "p">> \o OrbxExt
        /\ ~st.append_frame_range
        /\ st.batch_enable
        /\ st.batch_step \in {1, 2}
        /\ st.batch_overlap_frames = 1
        /\ st.batch_delay = 10
        /\ st.batch_cooldown = 0}

\* Every operation of the sequencer, in any order, on files that appear after
\* a few polls.
Init ==
    /\ scene = SequencerScene
    /\ settings \in SequencerSettings
    /\ fs_script \in {AppearFile(k, n) : k \in 0..MaxAbsent, n \in 0..MaxSize}
    /\ InitRest
    /\ last = operator_result("register", "", TRUE)

Next ==
    \/ orbx_prepare_batch
    \/ orbx_auto_batch
    \/ orbx_auto_batch_stop
    \/ orbx_auto_batch_timer
    \/ set_batch_auto
    \/ unregister
    \/ context_lost

Spec == Init /\ [][Next]_vars

\* The state after 'Prepare Batch Chunks' on a plan without overlap, auto
\* batch ticked.
InitPrepared ==
    /\ scene = SequencerScene
    /\ \E st \in SequencerSettings :
          /\ st.batch_auto
          /\ ~st.batch_use_overlap
          /\ settings = prepared_settings(st, SequencerScene)
    /\ InitRest
    /\ last = operator_result("prepare_batch", "prepared", TRUE)

\* The sequencer polling a file that may be anything at every poll.
InitPoll == InitPrepared /\ fs_script = AnyFile

\* One run at a time: a start only when no run and no tick is pending.
start_when_idle ==
    /\ ~auto_state.running
    /\ timers = 0
    /\ orbx_auto_batch

NextPoll ==
    \/ start_when_idle
    \/ orbx_auto_batch_timer

SpecPoll == InitPoll /\ [][NextPoll]_vars

\* The sequencer on a simulated filesystem: the file never appears, or is
\* absent for the first polls of each chunk and then there with one size.
InitScript == InitPrepared /\ fs_script \in {NeverFile} \cup AppearFiles

NextScript ==
    \/ orbx_auto_batch
    \/ orbx_auto_batch_timer

SpecScript == InitScript /\ [][NextScript]_vars

\* Runs that are stopped and started again: a start only when no session is
\* running, whether or not the tick of the stopped session has fired yet.
start_when_stopped ==
    /\ ~auto_state.running
    /\ orbx_auto_batch

NextStopStart ==
    \/ start_when_stopped
    \/ orbx_auto_batch_stop
    \/ orbx_auto_batch_timer

InitStopStart ==
    InitPrepared /\ fs_script \in {AppearFile(k, 1) : k \in 0..MaxAbsent}

SpecStopStart == InitStopStart /\ [][NextStopStart]_vars

\* The manual driver and the planner at work during the runs of the
\* sequencer, the step edited in between.
InitMixed ==
    /\ InitPrepared
    /\ settings.batch_step = 1
    /\ fs_script \in {AppearFile(k, 1) : k \in 0..1}

NextMixed ==
    \/ set_batch_step
    \/ orbx_prepare_batch
    \/ orbx_export_next_chunk
    \/ start_when_idle
    \/ orbx_auto_batch_timer

SpecMixed == InitMixed /\ [][NextMixed]_vars

\* The sequencer under every delay and cooldown of the panel, also a delay
\* below half a second, polling a file that may be anything at every poll.
InitDelay ==
    /\ scene = SequencerScene
    /\ \E st \in SequencerSettings, d \in Delays, c \in Cooldowns :
          /\ st.batch_auto
          /\ ~st.batch_use_overlap
          /\ st.batch_step = 2
          /\ settings = [prepared_settings(st, SequencerScene)
                           EXCEPT !.batch_delay = d, !.batch_cooldown = c]
    /\ fs_script = AnyFile
    /\ InitRest
    /\ last = operator_result("prepare_batch", "prepared", TRUE)

SpecDelay == InitDelay /\ [][NextPoll]_vars

\* The planner pass by pass, for every range, step and overlap of the panel:
\* an execute that has begun goes on to its next pass or to its return.
NextLoop ==
    \/ prepare_batch_begin
    \/ prepare_batch_pass
    \/ prepare_batch_end

SpecLoop ==
    /\ InitReplan
    /\ [][NextLoop]_vars
    /\ WF_vars(prepare_batch_pass)
    /\ WF_vars(prepare_batch_end)

\* A run that is not stopped, disabled or restarted, its tick always invoked
\* again by the scheduler.
SpecLive ==
    InitPoll /\ [][NextPoll]_vars /\ WF_vars(orbx_auto_batch_timer)

---------------------------------------------------------------------------
\* Properties of the planner and of the manual driver (SpecPlan).

\* 'Prepare Batch Chunks' has just produced a plan from the present settings.
JustPrepared == last.op = "prepare_batch" /\ last.msg = "prepared"

Covering(chunks, f) ==
    {i \in 1..Len(chunks) : chunks[i].start <= f /\ f <= chunks[i].end}

Partitions(chunks, a, b) ==
    /\ Len(chunks) >= 1
    /\ chunks[1].start = a
    /\ chunks[Len(chunks)].end = b
    /\ \A i \in 1..(Len(chunks) - 1) : chunks[i + 1].start = chunks[i].end + 1
    /\ \A f \in a..b : Cardinality(Covering(chunks, f)) = 1

\* C1: without overlap the chunks of a plan partition [scene_start, scene_end]:
\* every frame lies in exactly one chunk, the first chunk starts at scene_start,
\* the last ends at scene_end, each chunk starts one frame after the previous
\* one ends; and range [0,45] with step 20 gives [0,19], [20,39], [40,45].
C1_ChunksPartitionRange ==
    /\ (JustPrepared /\ effective_overlap(settings) = 0)
          => Partitions(settings.batch_chunks, scene.frame_start, scene.frame_end)
    /\ plan_chunks(0, 45, 20, 0) =
          <<[start |-> 0, end |-> 19], [start |-> 20, end |-> 39],
            [start |-> 40, end |-> 45]>>

\* A plan without overlap of three chunks, the last one shorter than the step.
C1_Witness ==
    /\ JustPrepared
    /\ effective_overlap(settings) = 0
    /\ Len(settings.batch_chunks) = 3
    /\ settings.batch_chunks[3].end - settings.batch_chunks[3].start + 1
          < effective_step(settings)

chunk_filename(st, i) ==
    build_batch_filename_step(st, st.batch_chunks[i].start, st.batch_chunks[i].end)

\* C2: two different chunks of one plan get different batch file names, for
\* every step, every overlap setting, with or without the range suffix.
C2_DistinctFileNames ==
    JustPrepared =>
        \A i, j \in 1..Len(settings.batch_chunks) :
            i # j => chunk_filename(settings, i) # chunk_filename(settings, j)

\* The part of C2 the code keeps: the names differ when the overlap is smaller
\* than the step, so that no two chunks are clamped to the same start.
C2_DistinctWhenOverlapBelowStep ==
    (JustPrepared /\ effective_overlap(settings) < effective_step(settings)) =>
        \A i, j \in 1..Len(settings.batch_chunks) :
            i # j => chunk_filename(settings, i) # chunk_filename(settings, j)

\* 'Export Next Chunk' runs with a plan and a cursor inside it.
ManualExportDue ==
    /\ last'.op = "export_next_chunk"
    /\ Len(settings.batch_chunks) > 0
    /\ settings.batch_chunk_index < Len(settings.batch_chunks)

\* The export primitive is invoked once, with the frames of plan[next_index],
\* and the cursor moves by one.
ManualExportDone ==
    LET chunk == settings.batch_chunks[settings.batch_chunk_index + 1]
    IN /\ Len(manual_exports') = Len(manual_exports) + 1
       /\ SubSeq(manual_exports', 1, Len(manual_exports)) = manual_exports
       /\ manual_exports'[Len(manual_exports')].frame_start = chunk.start
       /\ manual_exports'[Len(manual_exports')].frame_end = chunk.end
       /\ settings'.batch_chunk_index = settings.batch_chunk_index + 1
       /\ settings'.batch_chunks = settings.batch_chunks

\* The manual exports since the plan was made are its first chunks, in order.
ManualExportsInPlanOrder ==
    /\ Len(manual_exports) = settings.batch_chunk_index
    /\ Len(manual_exports) <= Len(settings.batch_chunks)
    /\ \A k \in 1..Len(manual_exports) :
          /\ manual_exports[k].frame_start = settings.batch_chunks[k].start
          /\ manual_exports[k].frame_end = settings.batch_chunks[k].end

\* C10 as stated: with a non-empty plan and next_index < len(plan) the manual
\* export invokes the export primitive once with the frames of plan[next_index]
\* and increments next_index by one.
C10_ManualExportAsStated == [][ManualExportDue => ManualExportDone]_vars

\* C10 amended: the same when batch export is enabled (batch_enable); and the
\* manual exports that follow one planning call are the plan's chunks in plan
\* order, each at most once.
C10_ManualExportWhenEnabled ==
    /\ [][(ManualExportDue /\ settings.batch_enable) => ManualExportDone]_vars
    /\ []ManualExportsInPlanOrder

\* Two manual exports of a plan of at least three chunks have been made.
C10_Witness ==
    /\ last.op = "export_next_chunk"
    /\ last.msg = "exporting"
    /\ Len(manual_exports) = 2
    /\ Len(settings.batch_chunks) >= 3
    /\ manual_exports[2].frame_start > manual_exports[1].frame_start

\* 'Export Next Chunk' runs without a plan or with the cursor at its end.
ManualExportNotDue ==
    /\ last'.op = "export_next_chunk"
    /\ \/ Len(settings.batch_chunks) = 0
       \/ settings.batch_chunk_index >= Len(settings.batch_chunks)

\* C11: 'Export Next Chunk' with an empty plan or with next_index >= len(plan)
\* reports the condition and is cancelled, invokes no export and leaves
\* next_index and the plan unchanged; next_index <= len(plan) after any
\* sequence of planning and manual export calls.
C11_ExhaustedExportChangesNothing ==
    /\ [][ManualExportNotDue =>
            /\ last'.msg \in {"no_chunks", "all_exported"}
            /\ last'.ret.stop
            /\ last'.io = <<>>
            /\ manual_exports' = manual_exports
            /\ settings' = settings]_vars
    /\ [](settings.batch_chunk_index <= Len(settings.batch_chunks))

\* Every chunk of a plan of three was exported and one more call was made.
C11_Witness ==
    /\ last.op = "export_next_chunk"
    /\ last.msg = "all_exported"
    /\ Len(settings.batch_chunks) = 3
    /\ settings.batch_chunk_index = 3
    /\ Len(manual_exports) = 3

\* ceil(n / step)
CeilDiv(n, step) == (n + step - 1) \div step

\* C12: every successful planning call replaces the previous plan entirely:
\* the new plan holds only chunks of the present range and parameters (as many
\* as the range has windows, each inside the range, what the planner gives on
\* an empty plan), and the manual cursor is 0 whatever it was before.
C12_PlanReplacedCursorReset ==
    JustPrepared =>
        /\ settings.batch_chunk_index = 0
        /\ Len(settings.batch_chunks) =
              CeilDiv(scene.frame_end - scene.frame_start + 1,
                      effective_step(settings))
        /\ \A i \in 1..Len(settings.batch_chunks) :
              /\ scene.frame_start <= settings.batch_chunks[i].start
              /\ settings.batch_chunks[i].end <= scene.frame_end
        /\ settings.batch_chunks =
              plan_chunks(scene.frame_start, scene.frame_end,
                          effective_step(settings), effective_overlap(settings))

\* A planning call replaced a longer plan of another range, its cursor moved.
C12_Witness ==
    /\ JustPrepared
    /\ last.replaced.index >= 2
    /\ Len(last.replaced.chunks) > Len(settings.batch_chunks)
    /\ last.replaced.chunks[1] # settings.batch_chunks[1]

\* C13: a planning call on a range with scene_start >= scene_end is reported
\* as an error and cancelled; the stored plan and the manual cursor stay as
\* they were.
C13_InvalidRangeChangesNothing ==
    [][(last'.op = "prepare_batch"
          /\ scene.frame_start >= scene.frame_end) =>
            /\ settings.batch_enable => last'.msg = "invalid_range"
            /\ last'.ret.stop
            /\ settings' = settings
            /\ manual_exports' = manual_exports]_vars

\* A planning call on a range of one frame, a plan stored and its cursor moved.
C13_Witness ==
    /\ last.op = "prepare_batch"
    /\ last.msg = "invalid_range"
    /\ scene.frame_start = scene.frame_end
    /\ Len(settings.batch_chunks) >= 2
    /\ settings.batch_chunk_index >= 1

\* 'Prepare Batch Chunks' runs on a valid range with a stored step below 1.
PlanningWithStepBelowOne ==
    /\ last'.op = "prepare_batch"
    /\ settings.batch_enable
    /\ scene.frame_start < scene.frame_end
    /\ settings.batch_step < 1

WindowStart(i) == scene.frame_start + (i - 1) * effective_step(settings)

\* The i-th window, widened by the overlap, lies inside the scene range.
NotClamped(i) ==
    /\ WindowStart(i) - effective_overlap(settings) >= scene.frame_start
    /\ WindowStart(i) + effective_step(settings) - 1 + effective_overlap(settings)
          <= scene.frame_end

\* The number of frames chunk i and chunk i+1 both hold.
SharedFrames(chunks, i) ==
    Cardinality({f \in scene.frame_start..scene.frame_end :
                    /\ chunks[i].start <= f /\ f <= chunks[i].end
                    /\ chunks[i + 1].start <= f /\ f <= chunks[i + 1].end})

---------------------------------------------------------------------------
\* Properties of the file names (SpecNames).

AllDigits(s, i, j) == i <= j /\ \A k \in i..j : IsDigit(s[k])

\* The length of the ending of s that reads _frame_<digits>_<digits>, 0 when
\* s has no such ending: found from the last two underscores of s.
RangeSuffixLength(s) ==
    LET u == LastIndexOf(s, "_")
        t == IF u > 1 THEN LastIndexOf(SubSeq(s, 1, u - 1), "_") ELSE 0
    IN IF /\ t >= 7
          /\ AllDigits(s, u + 1, Len(s))
          /\ AllDigits(s, t + 1, u - 1)
          /\ SubSeq(s, t - 6, t) = FrameTag
       THEN Len(s) - t + 7
       ELSE 0

\* How many range suffixes s ends with, one after the other.
RECURSIVE SuffixCount(_)
SuffixCount(s) ==
    LET n == RangeSuffixLength(s)
    IN IF n = 0 THEN 0 ELSE 1 + SuffixCount(SubSeq(s, 1, Len(s) - n))

NameRoot(name) == splitext(name)[1]

\* The callback has just run, on a name that carried at most one range suffix.
ResolvedPlainName ==
    /\ last.op = "sync"
    /\ SuffixCount(NameRoot(last.io[1].path)) <= 1

\* The stored name carries at most one range suffix, the callback run again
\* on the same settings stores the same name, and the batch name of a chunk
\* made from it carries at most one range suffix.
ResolvedOnce ==
    /\ SuffixCount(NameRoot(settings.filename)) <= 1
    /\ synced_filename(settings, scene) = settings.filename
    /\ SuffixCount(NameRoot(build_batch_filename_step(settings, 0, 10))) <= 1

\* C16 as stated: any number of applications of sync_and_update_filename, the
\* frame range changing in between, yields a name with at most one
\* _frame_<start>_<end> suffix; resolving a resolved name again with the same
\* settings yields the same name; its batch names carry at most one suffix.
C16_ResolutionIdempotent == last.op = "sync" => ResolvedOnce

\* C16 amended: the same for a name that carries at most one range suffix
\* when it is resolved (every name the callback stored before does).
C16_ResolutionIdempotentOnPlainNames == ResolvedPlainName => ResolvedOnce

\* The callback ran on a name it had suffixed before, the frames changed.
C16_Witness ==
    /\ ResolvedPlainName
    /\ SuffixCount(NameRoot(last.io[1].path)) = 1
    /\ settings.append_frame_range
    /\ ~settings.use_scene_range
    /\ settings.frame_end = 10
    /\ settings.filename =
          <<"s">> \o FrameTag \o <<"0", "_", "1", "0">> \o OrbxExt

---------------------------------------------------------------------------
\* Properties of the sequencer.

\* The step is a tick of the Waiting phase: it polls the output path.
Poll ==
    /\ last'.op = "timer"
    /\ Len(last'.io) = 1
    /\ last'.io[1].call = "stat"

\* The latest operation was a tick that advanced the chunk.
AdvancedByStability == last.op = "timer" /\ last.msg = "chunk_complete"
AdvancedByTimeout == last.op = "timer" /\ last.msg = "timeout"

\* C3 as stated: the stability rule advances a chunk only at a poll where the
\* three most recent consecutive polls each found the file existing with the
\* size the poll before found; a poll that finds a changed size, or the file
\* missing after it had existed, resets the stable count to 0.
C3_StabilityAsStated ==
    [][Poll =>
        /\ (last'.msg = "chunk_complete" => watch'.unchanged >= StableNeeded)
        /\ (watch'.obs.exists /\ watch.existed
              /\ watch'.obs.size # watch.seen_size
                => auto_state'.stable = 0)
        /\ (~watch'.obs.exists /\ watch.existed => auto_state'.stable = 0)]_vars

\* C3 amended: the stability rule advances a chunk only at a poll that finds
\* the file, when the three most recent polls that found the file (polls that
\* found it missing left out) each found the size found by the one before
\* them, taken as 0 for the first; a poll that finds another size than the
\* last one found resets the stable count to 0; a poll that finds the file
\* missing leaves the stable count and the last observed size as they are.
C3_StabilityOverPollsThatFoundTheFile ==
    [][Poll =>
        /\ (last'.msg = "chunk_complete"
              => watch'.obs.exists /\ watch'.same_seen >= StableNeeded)
        /\ (watch'.obs.exists /\ watch'.obs.size # watch.seen_size
              => auto_state'.stable = 0)
        /\ (~watch'.obs.exists
              => /\ auto_state'.stable = auto_state.stable
                 /\ auto_state'.last_size = auto_state.last_size)]_vars

\* A chunk advanced by the stability rule although one of the three latest
\* polls found the file missing.
C3_Witness ==
    /\ AdvancedByStability
    /\ watch.unchanged < StableNeeded
    /\ watch.obs.size > 0
    /\ auto_state.checks >= 5

\* The file of the run appears after fs_script.absent polls with one size.
FileAppears == fs_script.kind = "appear"

\* C4 as stated: a file absent for the first k polls and unchanged from poll
\* k+1 on advances the chunk exactly 3 polls after poll k+1, no earlier.
C4_AdvanceAsStated ==
    FileAppears =>
        /\ auto_state.status = "waiting"
              => auto_state.checks < fs_script.absent + 1 + StableNeeded
        /\ (AdvancedByStability \/ AdvancedByTimeout)
              => auto_state.checks = fs_script.absent + 1 + StableNeeded

\* C4 amended: when the file has a size other than 0 and k <= 597, the chunk
\* is advanced by the stability rule at poll k+4 (3 polls after the first poll
\* that found the file) and at no earlier poll; a file of 0 bytes (k <= 598)
\* is advanced at poll k+3.
C4_AdvanceThreePollsAfterNonEmptyFile ==
    /\ (FileAppears /\ fs_script.size > 0
          /\ fs_script.absent + 1 + StableNeeded <= MaxChecks + 1) =>
          /\ auto_state.status = "waiting"
                => auto_state.checks < fs_script.absent + 1 + StableNeeded
          /\ ~AdvancedByTimeout
          /\ AdvancedByStability
                => auto_state.checks = fs_script.absent + 1 + StableNeeded
    /\ (FileAppears /\ fs_script.size = 0
          /\ fs_script.absent + StableNeeded <= MaxChecks + 1) =>
          /\ auto_state.status = "waiting"
                => auto_state.checks < fs_script.absent + StableNeeded
          /\ ~AdvancedByTimeout
          /\ AdvancedByStability
                => auto_state.checks = fs_script.absent + StableNeeded

\* The spec's case: absent for 2 polls, advanced at poll 6.
C4_Witness ==
    /\ fs_script = AppearFile(2, 1)
    /\ AdvancedByStability
    /\ auto_state.checks = 6
    /\ auto_state.index = 1

\* C5 as stated: a chunk whose file never appears is force-advanced once 600
\* polls have been made: not with fewer, and it is no longer Waiting after its
\* 600th poll.
C5_TimeoutAsStated ==
    fs_script.kind = "never" =>
        /\ auto_state.status = "waiting" => auto_state.checks < MaxChecks
        /\ AdvancedByTimeout => auto_state.checks = MaxChecks

\* C5 amended: a chunk whose file never appears is force-advanced
\* (current_index += 1, phase = Idle) by its 601st poll: it is still Waiting
\* after 600 polls and no longer after 601.
C5_TimeoutAtPoll601 ==
    fs_script.kind = "never" =>
        /\ ~AdvancedByStability
        /\ auto_state.status = "waiting"
              => /\ auto_state.checks <= MaxChecks
                 /\ auto_state.index = Len(auto_exports) - 1
        /\ AdvancedByTimeout
              => /\ auto_state.checks = MaxChecks + 1
                 /\ auto_state.status = "idle"
                 /\ auto_state.index = Len(auto_exports)

\* The second chunk of a run timed out.
C5_Witness ==
    /\ fs_script.kind = "never"
    /\ AdvancedByTimeout
    /\ auto_state.index = 2
    /\ auto_state.checks = MaxChecks + 1

\* C6: a tick that begins with running = false or with batch_auto off returns
\* the stop sentinel and leaves running false, without an export, without
\* touching a file, without a change of current_index, phase, stable_count or
\* poll_count.
C6_RefusedTickHasNoEffect ==
    [][(last'.op = "timer" /\ (~auto_state.running \/ ~settings.batch_auto)) =>
        /\ last'.ret = ReturnNone
        /\ ~auto_state'.running
        /\ last'.io = <<>>
        /\ auto_exports' = auto_exports
        /\ auto_state'.index = auto_state.index
        /\ auto_state'.status = auto_state.status
        /\ auto_state'.stable = auto_state.stable
        /\ auto_state'.checks = auto_state.checks
        /\ auto_state'.chunks = auto_state.chunks
        /\ timers' = timers - 1]_vars

\* A tick of the Waiting phase found batch_auto off.
C6_Witness ==
    /\ last.op = "timer"
    /\ last.msg = "auto_disabled"
    /\ auto_state.status = "waiting"
    /\ auto_state.checks > 0
    /\ auto_state.index > 0

\* C7: a start while a session is running is rejected: it leaves the session
\* as it is and registers no tick.
C7_SecondStartRejected ==
    [][(last'.op = "auto_batch" /\ auto_state.running) =>
        /\ last'.msg # "started"
        /\ auto_state' = auto_state
        /\ timers' = timers]_vars

\* C8: within a run current_index changes only by +1, by a tick, at most once
\* per tick (a start begins a new run at 0); 0 <= current_index <= len(plan);
\* a tick that is not refused completes the session exactly when it finds
\* current_index = len(plan).
C8_IndexOnlyAdvancesByOne ==
    /\ [](/\ 0 <= auto_state.index
          /\ auto_state.index <= Len(auto_state.chunks))
    /\ [][auto_state'.index # auto_state.index =>
            \/ /\ last'.op = "timer"
               /\ auto_state'.index = auto_state.index + 1
            \/ /\ last'.op = "auto_batch"
               /\ last'.msg = "started"
               /\ auto_state'.index = 0]_vars
    /\ [][(last'.op = "timer"
             /\ timer_keeps_going(auto_state, has_settings, settings)) =>
            /\ (last'.msg = "complete")
                  <=> (auto_state.index = Len(auto_state.chunks))
            /\ (last'.msg = "complete")
                  => ~auto_state'.running /\ last'.ret = ReturnNone]_vars

\* The poll at which both the stability rule and the timeout apply.
C8_Witness ==
    /\ AdvancedByStability
    /\ auto_state.checks > MaxChecks
    /\ auto_state.index = 2

\* The export invocation of the i-th chunk of the session.
ChunkExport(i) ==
    export_call(auto_state.chunks[i].path, auto_state.chunks[i].start,
                auto_state.chunks[i].end)

\* The exports of the run so far are those of its first chunks, in plan
\* order, one each: of the chunks advanced, and of the one waited for.
ExportedInPlanOrder ==
    /\ Len(auto_exports) =
          auto_state.index + (IF auto_state.status = "waiting" THEN 1 ELSE 0)
    /\ \A k \in 1..Len(auto_exports) : auto_exports[k] = ChunkExport(k)

\* C17: within one run the export primitive is invoked one chunk at a time in
\* plan order: once for chunk i, only by an Idle tick with current_index = i,
\* and for chunk i+1 only after chunk i was advanced by the stability rule or
\* the timeout; no chunk is exported twice, none is skipped.
C17_OneExportPerChunkInPlanOrder ==
    /\ []ExportedInPlanOrder
    /\ [][auto_exports' # auto_exports =>
            \/ /\ last'.op = "timer"
               /\ auto_state.running
               /\ auto_state.status = "idle"
               /\ auto_state'.status = "waiting"
               /\ auto_state'.index = auto_state.index
               /\ auto_exports' =
                     Append(auto_exports, ChunkExport(auto_state.index + 1))
               /\ auto_state.index > 0
                     => last.msg \in {"chunk_complete", "timeout"}
            \/ /\ last'.op = "auto_batch"
               /\ last'.msg = "started"
               /\ auto_exports' = <<>>]_vars

\* The third chunk of a run is exported, the first two were waited for.
C17_Witness ==
    /\ last.op = "timer"
    /\ last.msg = "starting"
    /\ Len(auto_exports) = 3
    /\ auto_state.index = 2
    /\ auto_exports[1] # auto_exports[2]
    /\ auto_exports[2] # auto_exports[3]

\* C18: at any moment at most one sequencer tick is scheduled, after any
\* interleaving of start, stop and tick (a stop followed by a start before the
\* scheduled tick has fired included), so that no tick of a stopped session
\* is left to act on a later session.
C18_AtMostOneTickScheduled == timers <= 1

\* C19: an Idle tick cleans up before it exports and removes only the output
\* file of the current chunk and its '<name> assets' directory; the cleanup
\* never removes the output file of a chunk advanced earlier in the same run,
\* for every plan the planner can produce.
C19_CleanupSparesAdvancedChunks ==
    [][(last'.op = "timer" /\ last'.msg = "starting") =>
          LET path == auto_state.chunks[auto_state.index + 1].path
          IN /\ last'.io = <<io_call("cleanup", path),
                             io_call("cleanup", assets_dir(path)),
                             io_call("export", path)>>
             /\ \A j \in 1..auto_state.index :
                   auto_state.chunks[j].path # path]_vars

\* C20: a tick never changes the stored plan or the manual cursor (nor any
\* other setting); 'Prepare Batch Chunks' and 'Export Next Chunk' never change
\* the session (snapshot, current_index, phase, stable_count, poll_count) or
\* its timer; the snapshot changes only by a start and a tick exports the
\* chunk of the snapshot.
C20_DriversKeepToTheirState ==
    /\ [][last'.op = "timer" => settings' = settings]_vars
    /\ [][last'.op \in {"prepare_batch", "export_next_chunk"} =>
            /\ auto_state' = auto_state
            /\ timers' = timers
            /\ auto_exports' = auto_exports
            /\ watch' = watch]_vars
    /\ [][auto_state'.chunks # auto_state.chunks =>
            last'.op = "auto_batch" /\ last'.msg = "started"]_vars
    /\ [][(last'.op = "timer" /\ last'.msg = "starting") =>
            auto_exports' =
               Append(auto_exports, ChunkExport(auto_state.index + 1))]_vars

\* A tick exports the second chunk of its snapshot after the plan was
\* replaced by another one and a chunk of that was exported by hand.
C20_Witness ==
    /\ last.op = "timer"
    /\ last.msg = "starting"
    /\ auto_state.index = 1
    /\ settings.batch_chunk_index >= 1
    /\ Len(settings.batch_chunks) # Len(auto_state.chunks)
    /\ auto_exports[2] = ChunkExport(2)

\* The run is over: every chunk of the plan was handed to the exporter.
RunCompleted ==
    /\ last.op = "timer"
    /\ last.msg = "complete"
    /\ ~auto_state.running
    /\ auto_state.index = Len(auto_state.chunks)
    /\ Len(auto_exports) = Len(auto_state.chunks)
    /\ \A i \in 1..Len(auto_exports) :
          auto_exports[i] = export_call(auto_state.chunks[i].path,
                                        auto_state.chunks[i].start,
                                        auto_state.chunks[i].end)

\* C9: a run whose tick keeps being invoked and that is not stopped, disabled
\* or restarted completes, whatever the polls find, with current_index =
\* len(plan) and the export primitive invoked for every chunk.
C9_RunCompletes == auto_state.running ~> RunCompleted

\* A run of three chunks has completed.
C9_Witness ==
    /\ RunCompleted
    /\ Len(auto_state.chunks) = 3
    /\ auto_state.checks > MaxChecks

---------------------------------------------------------------------------
\* The planner's loop (SpecLoop).

\* The chunks emitted so far lie in the range, their starts in ascending
\* order, strictly so when the overlap is smaller than the step.
ChunksInRangeAscending ==
    LET chunks == settings.batch_chunks
    IN /\ \A i \in 1..Len(chunks) :
             /\ scene.frame_start <= chunks[i].start
             /\ chunks[i].start <= chunks[i].end
             /\ chunks[i].end <= scene.frame_end
       /\ \A i \in 1..(Len(chunks) - 1) :
             /\ chunks[i].start <= chunks[i + 1].start
             /\ effective_overlap(settings) < settings.batch_step =>
                   chunks[i].start < chunks[i + 1].start

\* C21: for every range with start < end, every step >= 1 and every overlap
\* >= 0 the planner's loop terminates; every pass emits a chunk (no window is
\* dropped as empty after clamping), every emitted chunk satisfies
\* scene_start <= start <= end <= scene_end, the starts are in ascending
\* order, and at the end the plan has exactly
\* ceil((scene_end - scene_start + 1) / step) chunks.
C21_LoopTerminatesWithEveryWindow ==
    /\ (planner.pc = "loop") ~> (planner.pc = "done")
    /\ [](planner.pc # "idle" =>
            /\ Len(settings.batch_chunks) = planner.passes
            /\ ChunksInRangeAscending)
    /\ [](planner.pc = "done" =>
            /\ planner.f > scene.frame_end
            /\ Len(settings.batch_chunks) =
                  CeilDiv(scene.frame_end - scene.frame_start + 1,
                          settings.batch_step)
            /\ settings.batch_chunks =
                  plan_chunks(scene.frame_start, scene.frame_end,
                              effective_step(settings),
                              effective_overlap(settings)))

\* C21 witness: the loop has returned on the range [0, 4] with step 2 and an
\* overlap of 2, after three passes: the windows [0, 3], [0, 4] and [2, 4],
\* each clamped, the first two with the same start.
C21_Witness ==
    /\ planner.pc = "done"
    /\ planner.passes = 3
    /\ scene.frame_start = 0
    /\ scene.frame_end = 4
    /\ settings.batch_step = 2
    /\ effective_overlap(settings) = 2
    /\ settings.batch_chunks =
          << [start |-> 0, end |-> 3], [start |-> 0, end |-> 4],
             [start |-> 2, end |-> 4] >>

---------------------------------------------------------------------------
\* The delay a tick requests (SpecDelay), in tenths of a second.

\* The latest operation was a tick that asked to be called again.
TickRequestedNext == last.op = "timer" /\ ~last.ret.stop

\* The tick polled the file and left the chunk waiting.
WaitingTickKept ==
    TickRequestedNext /\ auto_state.status = "waiting" /\ auto_state.checks >= 1

\* The tick started a chunk's export.
IdleTickStarted ==
    TickRequestedNext /\ auto_state.status = "waiting" /\ auto_state.checks = 0

\* The tick moved on to the next chunk, by stability or by timeout.
TickAdvanced == TickRequestedNext /\ auto_state.status = "idle"

=============================================================================
